---- MODULE Spec2Model ----
(***************************************************************************)
(* Paillier homomorphic encryption (src/ui/lib/paillier.ts) and the way    *)
(* its callers use it.  The library works on arbitrary-precision integers  *)
(* (bigint): "/" truncates toward zero and "%" takes the sign of the       *)
(* dividend.  A function that can throw is modelled by an outcome record   *)
(* with an ok flag.                                                        *)
(***************************************************************************)
EXTENDS Integers, Sequences, FiniteSets, TLC

VARIABLES
    p, q,       \* the two arguments handed to generateKeyPair
    keyPair,    \* outcome of generateKeyPair(p, q); status "none" before the call
    cts,        \* ciphertexts the caller holds, in order, each with where it came from
    agg,        \* outcome of the last homomorphic operation on cts
    dec,        \* outcome of the last decrypt call
    steps,      \* outcome of the last decryptWithSteps call
    num,        \* arguments and outcome of a direct call of a number-theory primitive
    rng,        \* an encrypt call in progress: its position and the draws it has made
    now,        \* the clock read by Date.now()
    voters,     \* Home: the voter list
    encryptedSum,    \* VoteTally: bigint | null, null being <<>>
    decryptedSum,    \* VoteTally: bigint | null
    decryptionSteps, \* VoteTally: DecryptionSteps | null
    showDecryption,  \* VoteTally: boolean
    computed    \* how the last handler run ended if it was computeHomomorphicSum:
                \* "returned" early or "folded"; "no" after any other handler

\* the state of the page's components other than the key pair
appVars ==
    <<now, voters, encryptedSum, decryptedSum, decryptionSteps, showDecryption, computed>>

vars == <<p, q, keyPair, cts, agg, dec, steps, num, rng, appVars>>

(***************************************************************************)
(* Bounds of the model.                                                    *)
(***************************************************************************)
\* largest prime offered to generateKeyPair
MaxPrime == 13
\* largest n = p*q of the single-ciphertext session
MaxModulus == 35
\* largest n = p*q of the sessions holding two ciphertexts
MaxAddModulus == 15
\* largest n = p*q of the sessions folding three ciphertexts
MaxFoldModulus == 15
\* largest ciphertext value handed to the fold
MaxCipherValue == 15
\* largest scalar handed to homomorphicMultiplyScalar
MaxScalar == 4
\* largest |a| and largest modulus handed to modInverse directly
MaxOperand == 24
MaxInverseModulus == 12
\* largest exponent handed to modPow directly
MaxExponent == 3
\* largest |min| and largest max handed to findPrimesInRange
MaxRangeEnd == 30
\* largest n = p*q of the sessions that follow encrypt draw by draw, and the
\* largest message they encrypt
MaxDrawModulus == 15
MaxDrawMessage == 2
\* largest min and largest max handed to randomBigInt directly
MaxDrawMin == 2
MaxDrawMax == 9
\* the page: most voters in the list, latest clock reading, largest n = p*q of
\* the keys generated, largest r the random source hands to encrypt
MaxVoters == 2
MaxClock == 1
MaxTallyModulus == 15
MaxTallyBlinding == 2

\* the number of values of one element of a Uint8Array
ByteSize == 256

(***************************************************************************)
(* bigint arithmetic.                                                      *)
(***************************************************************************)
Abs(x) == IF x < 0 THEN -x ELSE x

\* bigint a / b : the quotient truncated toward zero (b # 0)
Quot(a, b) ==
    IF (a >= 0) = (b > 0) THEN Abs(a) \div Abs(b) ELSE -(Abs(a) \div Abs(b))

\* bigint a % b : the remainder, with the sign of the dividend (b # 0)
Rem(a, b) == IF a >= 0 THEN a % Abs(b) ELSE -((-a) % Abs(b))

(***************************************************************************)
(* Number-theory primitives.                                               *)
(***************************************************************************)
RECURSIVE modPowLoop(_, _, _, _)
modPowLoop(result, base, exp, mod) ==
    IF exp > 0
    THEN modPowLoop(IF Rem(exp, 2) = 1 THEN Rem(result * base, mod) ELSE result,
                    Rem(base * base, mod), Quot(exp, 2), mod)
    ELSE result

modPow(base, exp, mod) == modPowLoop(1, Rem(base, mod), exp, mod)

RECURSIVE extendedGcd(_, _)
extendedGcd(a, b) ==
    IF a = 0
    THEN [gcd |-> b, x |-> 0, y |-> 1]
    ELSE LET r == extendedGcd(Rem(b, a), a)
         IN  [gcd |-> r.gcd, x |-> r.y - Quot(b, a) * r.x, y |-> r.x]

\* ok = FALSE stands for the throw of "Modular inverse does not exist"
modInverse(a, mod) ==
    LET e == extendedGcd(Rem(a, mod), mod)
    IN  IF e.gcd # 1
        THEN [ok |-> FALSE, value |-> 0]
        ELSE [ok |-> TRUE, value |-> Rem(Rem(e.x, mod) + mod, mod)]

\* a faulty trial division: it stops one candidate early, before the square root
RECURSIVE isPrimeLoop_Early(_, _)
isPrimeLoop_Early(n, i) ==
    IF i * i < n
    THEN IF Rem(n, i) = 0 THEN FALSE ELSE isPrimeLoop_Early(n, i + 2)
    ELSE TRUE

RECURSIVE isPrimeLoop(_, _)
isPrimeLoop(n, i) ==
    IF i * i <= n
    THEN IF Rem(n, i) = 0 THEN FALSE ELSE isPrimeLoop(n, i + 2)
    ELSE TRUE

isPrime(n) ==
    IF n < 2 THEN FALSE
    ELSE IF n = 2 \/ n = 3 THEN TRUE
    ELSE IF Rem(n, 2) = 0 THEN FALSE
    ELSE isPrimeLoop(n, 3)

RECURSIVE gcd(_, _)
gcd(a, b) == IF b # 0 THEN gcd(b, Rem(a, b)) ELSE a

\* a faulty lcm: the product, not divided by the gcd
lcm_Product(a, b) == a * b

lcm(a, b) == Quot(a * b, gcd(a, b))

RECURSIVE findPrimesLoop(_, _, _)
findPrimesLoop(i, max, primes) ==
    IF i <= max
    THEN findPrimesLoop(i + 1, max, IF isPrime(i) THEN Append(primes, i) ELSE primes)
    ELSE primes

findPrimesInRange(min, max) == findPrimesLoop(min, max, <<>>)

L(x, n) == Quot(x - 1, n)

\* range.toString(2).length
RECURSIVE bitLength(_)
bitLength(x) == IF x < 2 THEN 1 ELSE 1 + bitLength(Quot(x, 2))

\* Math.ceil(bits / 8)
byteCount(range) == (bitLength(range) + 7) \div 8

\* b.toString(16).padStart(2, '0'), as its two hexadecimal digits
hexOf(b) == <<b \div 16, b % 16>>

\* BigInt('0x' + digits): the digits of the bytes read as one hexadecimal number
RECURSIVE fromHex(_, _, _)
fromHex(bs, i, acc) ==
    IF i <= Len(bs)
    THEN fromHex(bs, i + 1, (acc * 16 + hexOf(bs[i])[1]) * 16 + hexOf(bs[i])[2])
    ELSE acc

\* a faulty loop test of randomBigInt: a draw equal to range passes
drawTooLarge_OffByOne(result, range) == result > range

\* the loop test of randomBigInt: the draw is discarded
drawTooLarge(result, range) == result >= range

\* a faulty loop test of encrypt: every r passes
notCoprime_Never(r, n) == FALSE

\* a faulty loop test of encrypt: r is compared with n, which no r below n meets
notCoprime_Always(r, n) == gcd(r, n) # n

\* the loop test of encrypt: r is drawn again
notCoprime(r, n) == gcd(r, n) # 1

\* every value randomBigInt(min, max) can return: min + result with result < range
randomBigInt(min, max) == {min + result : result \in 0 .. (max - min)}

(***************************************************************************)
(* Key generation.                                                         *)
(***************************************************************************)
isValidPaillierPair(a, b) ==
    IF a = b THEN FALSE
    ELSE gcd(a * b, lcm(a - 1, b - 1)) = 1

NoPublicKey == [n |-> 0, nSquared |-> 0, g |-> 0]
NoPrivateKey == [lambda |-> 0, mu |-> 0, n |-> 0, nSquared |-> 0]
NoKeySteps ==
    [p |-> 0, q |-> 0, n |-> 0, nSquared |-> 0, g |-> 0, pMinus1 |-> 0,
     qMinus1 |-> 0, lambda |-> 0, gLambda |-> 0, lOfGLambda |-> 0, mu |-> 0]
NoKeyError == [n |-> 0, lambda |-> 0, gcd |-> 0]
NoKeyPair ==
    [status |-> "none", publicKey |-> NoPublicKey, privateKey |-> NoPrivateKey,
     steps |-> NoKeySteps, error |-> NoKeyError, calls |-> <<>>]

\* a faulty generateKeyPair: gcd(n, lambda) is looked at only after g^lambda and
\* its L value have been computed
generateKeyPair_LateCheck(a, b) ==
    LET n == a * b
        nSquared == n * n
        g == n + 1
        lambda == lcm(a - 1, b - 1)
        gLambda == modPow(g, lambda, nSquared)
        lOfGLambda == L(gLambda, n)
        inv == modInverse(lOfGLambda, n)
    IN  IF gcd(n, lambda) # 1
        THEN [NoKeyPair EXCEPT !.status = "invalid",
                 !.error = [n |-> n, lambda |-> lambda, gcd |-> gcd(n, lambda)],
                 !.calls = <<"lcm", "modPow", "L", "gcd">>]
        ELSE IF ~inv.ok
        THEN [NoKeyPair EXCEPT !.status = "noinverse",
                 !.calls = <<"lcm", "modPow", "L", "gcd", "modInverse">>]
        ELSE [status |-> "ok",
              publicKey |-> [n |-> n, nSquared |-> nSquared, g |-> g],
              privateKey |-> [lambda |-> lambda, mu |-> inv.value, n |-> n,
                              nSquared |-> nSquared],
              steps |-> [p |-> a, q |-> b, n |-> n, nSquared |-> nSquared, g |-> g,
                         pMinus1 |-> a - 1, qMinus1 |-> b - 1, lambda |-> lambda,
                         gLambda |-> gLambda, lOfGLambda |-> lOfGLambda, mu |-> inv.value],
              error |-> NoKeyError,
              calls |-> <<"lcm", "modPow", "L", "gcd", "modInverse">>]

\* status "ok": the key pair returned; "invalid": the throw of "Invalid prime
\* pair", error holding the three numbers of its message; "noinverse": the
\* throw of modInverse passing through.  calls lists, in order, the
\* primitives that were run.
generateKeyPair(a, b) ==
    LET n == a * b
        nSquared == n * n
        g == n + 1
        pMinus1 == a - 1
        qMinus1 == b - 1
        lambda == lcm(pMinus1, qMinus1)
        gLambda == modPow(g, lambda, nSquared)
        lOfGLambda == L(gLambda, n)
        inv == modInverse(lOfGLambda, n)
        mu == inv.value
    IN  IF gcd(n, lambda) # 1
        THEN [NoKeyPair EXCEPT !.status = "invalid",
                 !.error = [n |-> n, lambda |-> lambda, gcd |-> gcd(n, lambda)],
                 !.calls = <<"lcm", "gcd">>]
        ELSE IF ~inv.ok
        THEN [NoKeyPair EXCEPT !.status = "noinverse",
                 !.calls = <<"lcm", "gcd", "modPow", "L", "modInverse">>]
        ELSE [status |-> "ok",
              publicKey |-> [n |-> n, nSquared |-> nSquared, g |-> g],
              privateKey |-> [lambda |-> lambda, mu |-> mu, n |-> n, nSquared |-> nSquared],
              steps |-> [p |-> a, q |-> b, n |-> n, nSquared |-> nSquared, g |-> g,
                         pMinus1 |-> pMinus1, qMinus1 |-> qMinus1, lambda |-> lambda,
                         gLambda |-> gLambda, lOfGLambda |-> lOfGLambda, mu |-> mu],
              error |-> NoKeyError,
              calls |-> <<"lcm", "gcd", "modPow", "L", "modInverse">>]

(***************************************************************************)
(* Cipher and homomorphic operations.                                      *)
(***************************************************************************)
\* a faulty encrypt: the ciphertext lacks the factor r^n
encryptWith_NoBlinding(message, r, publicKey) ==
    modPow(publicKey.g, message, publicKey.nSquared)

\* the ciphertext encrypt computes once its loop has settled on r
encryptWith(message, r, publicKey) ==
    LET gm == modPow(publicKey.g, message, publicKey.nSquared)
        rn == modPow(r, publicKey.n, publicKey.nSquared)
    IN  Rem(gm * rn, publicKey.nSquared)

\* every EncryptionResult encrypt can return: the loop leaves with the first
\* draw of randomBigInt(2, n - 1) that is coprime to n
encrypt(message, publicKey) ==
    {[ciphertext |-> encryptWith(message, r, publicKey), r |-> r] :
        r \in {d \in randomBigInt(2, publicKey.n - 1) : gcd(d, publicKey.n) = 1}}

\* a faulty decrypt: the L value is not multiplied by mu
decrypt_NoMu(ciphertext, privateKey) ==
    LET cLambda == modPow(ciphertext, privateKey.lambda, privateKey.nSquared)
    IN  Rem(L(cLambda, privateKey.n), privateKey.n)

decrypt(ciphertext, privateKey) ==
    LET cLambda == modPow(ciphertext, privateKey.lambda, privateKey.nSquared)
        lValue == L(cLambda, privateKey.n)
    IN  Rem(lValue * privateKey.mu, privateKey.n)

\* a faulty decryptWithSteps: the message is the product before its reduction
decryptWithSteps_NoReduce(ciphertext, privateKey) ==
    LET cLambda == modPow(ciphertext, privateKey.lambda, privateKey.nSquared)
        lValue == L(cLambda, privateKey.n)
        lTimesMu == lValue * privateKey.mu
    IN  [ciphertext |-> ciphertext, lambda |-> privateKey.lambda,
         nSquared |-> privateKey.nSquared, cLambda |-> cLambda, n |-> privateKey.n,
         lValue |-> lValue, mu |-> privateKey.mu, lTimesMu |-> lTimesMu,
         message |-> lTimesMu]

decryptWithSteps(ciphertext, privateKey) ==
    LET cLambda == modPow(ciphertext, privateKey.lambda, privateKey.nSquared)
        lValue == L(cLambda, privateKey.n)
        lTimesMu == lValue * privateKey.mu
        message == Rem(lTimesMu, privateKey.n)
    IN  [ciphertext |-> ciphertext, lambda |-> privateKey.lambda,
         nSquared |-> privateKey.nSquared, cLambda |-> cLambda, n |-> privateKey.n,
         lValue |-> lValue, mu |-> privateKey.mu, lTimesMu |-> lTimesMu,
         message |-> message]

\* a faulty homomorphicAdd: the ciphertexts are added
homomorphicAdd_Plus(c1, c2, publicKey) == Rem(c1 + c2, publicKey.nSquared)

\* a faulty homomorphicAdd: the product is not reduced
homomorphicAdd_NoReduce(c1, c2, publicKey) == c1 * c2

\* a faulty homomorphicAdd: the first ciphertext enters twice
homomorphicAdd_Skew(c1, c2, publicKey) == Rem(c1 * c2 + c1, publicKey.nSquared)

homomorphicAdd(c1, c2, publicKey) == Rem(c1 * c2, publicKey.nSquared)

\* a faulty homomorphicMultiplyScalar: the ciphertext is multiplied by the scalar
homomorphicMultiplyScalar_Times(c, scalar, publicKey) == Rem(c * scalar, publicKey.nSquared)

homomorphicMultiplyScalar(c, scalar, publicKey) == modPow(c, scalar, publicKey.nSquared)

(***************************************************************************)
(* A session with the library: one key generation, then one ciphertext     *)
(* that is encrypted or received, optionally raised to a scalar, and       *)
(* decrypted with and without the trace.                                   *)
(***************************************************************************)
Range(s) == {s[i] : i \in 1 .. Len(s)}

\* the primes a caller can pick from
Primes == Range(findPrimesInRange(2, MaxPrime))

NoNum ==
    [op |-> "none", a |-> 0, exp |-> 0, modulus |-> 0, called |-> FALSE, ok |-> FALSE,
     value |-> 0, list |-> <<>>]

\* no call of randomBigInt or encrypt in progress.  pc is the position: "draw"
\* before the bytes are drawn, "while" at randomBigInt's loop test, "gcd" at
\* encrypt's loop test, "done" after the return.  discarded tells that a draw
\* failed randomBigInt's test, rejected is the last r that failed encrypt's.
NoRng ==
    [pc |-> "idle", caller |-> "none", message |-> 0, min |-> 0, max |-> 0,
     range |-> 0, bytes |-> 0, result |-> 0, r |-> 0, discarded |-> FALSE,
     rejected |-> 0, ciphertext |-> 0]

\* the page before any key pair exists: no voters, nothing tallied
AppIdle ==
    /\ now = 0
    /\ voters = <<>>
    /\ encryptedSum = <<>>
    /\ decryptedSum = <<>>
    /\ decryptionSteps = <<>>
    /\ computed = "no"
    /\ showDecryption = FALSE

Init ==
    /\ p \in Primes
    /\ q \in Primes
    /\ keyPair = NoKeyPair
    /\ cts = <<>>
    /\ agg = <<>>
    /\ dec = <<>>
    /\ steps = <<>>
    /\ num = NoNum
    /\ rng = NoRng
    /\ AppIdle

GenerateKeyPair ==
    /\ keyPair.status = "none"
    /\ keyPair' = generateKeyPair(p, q)
    /\ UNCHANGED <<p, q, cts, agg, dec, steps, num>>
    /\ UNCHANGED <<rng, appVars>>

Min(a, b) == IF a <= b THEN a ELSE b

\* the caller encrypts a message of [0, n) and keeps the result after those it
\* holds, all of them encryptions
EncryptUpTo(maxN, maxHeld) ==
    /\ keyPair.status = "ok"
    /\ keyPair.publicKey.n <= maxN
    /\ Len(cts) < maxHeld
    /\ agg = <<>> /\ dec = <<>> /\ steps = <<>>
    /\ \A i \in 1 .. Len(cts) : cts[i].from = "encrypt"
    /\ \E message \in 0 .. keyPair.publicKey.n - 1 :
         \E e \in encrypt(message, keyPair.publicKey) :
            cts' = Append(cts, [from |-> "encrypt", message |-> message,
                                ciphertext |-> e.ciphertext, r |-> e.r])
    /\ UNCHANGED <<p, q, keyPair, agg, dec, steps, num>>
    /\ UNCHANGED <<rng, appVars>>

\* the caller is handed a ciphertext of [0, n^2), at most maxC, that it did not
\* produce and keeps it after those it holds, all of them handed to it
ReceiveUpTo(maxN, maxHeld, maxC) ==
    /\ keyPair.status = "ok"
    /\ keyPair.publicKey.n <= maxN
    /\ Len(cts) < maxHeld
    /\ agg = <<>> /\ dec = <<>> /\ steps = <<>>
    /\ \A i \in 1 .. Len(cts) : cts[i].from = "given"
    /\ \E c \in 0 .. Min(keyPair.publicKey.nSquared - 1, maxC) :
         cts' = Append(cts, [from |-> "given", message |-> 0, ciphertext |-> c, r |-> 0])
    /\ UNCHANGED <<p, q, keyPair, agg, dec, steps, num>>
    /\ UNCHANGED <<rng, appVars>>

Encrypt == EncryptUpTo(MaxModulus, 1)

Receive == ReceiveUpTo(MaxModulus, 1, MaxModulus * MaxModulus)

MultiplyScalar ==
    /\ Len(cts) = 1
    /\ agg = <<>> /\ dec = <<>> /\ steps = <<>>
    /\ \E scalar \in 0 .. MaxScalar :
         agg' = <<[op |-> "scalar", scalar |-> scalar,
                   ciphertext |-> homomorphicMultiplyScalar(cts[1].ciphertext, scalar,
                                                            keyPair.publicKey)]>>
    /\ UNCHANGED <<p, q, keyPair, cts, dec, steps, num>>
    /\ UNCHANGED <<rng, appVars>>

\* the ciphertext a decryption is asked for: the combined one when there is one
Latest == IF agg # <<>> THEN agg[1].ciphertext ELSE cts[Len(cts)].ciphertext

Decrypt ==
    /\ cts # <<>>
    /\ Len(agg) <= 1
    /\ dec = <<>>
    /\ dec' = <<[ciphertext |-> Latest, message |-> decrypt(Latest, keyPair.privateKey)]>>
    /\ UNCHANGED <<p, q, keyPair, cts, agg, steps, num>>
    /\ UNCHANGED <<rng, appVars>>

DecryptWithSteps ==
    /\ cts # <<>>
    /\ steps = <<>>
    /\ steps' = <<decryptWithSteps(Latest, keyPair.privateKey)>>
    /\ UNCHANGED <<p, q, keyPair, cts, agg, dec, num>>
    /\ UNCHANGED <<rng, appVars>>

Next ==
    \/ GenerateKeyPair
    \/ Encrypt
    \/ Receive
    \/ MultiplyScalar
    \/ Decrypt
    \/ DecryptWithSteps

Spec == Init /\ [][Next]_vars

(***************************************************************************)
(* A session that combines two ciphertexts with homomorphicAdd.            *)
(***************************************************************************)
EncryptNext == EncryptUpTo(MaxAddModulus, 2)

ReceiveNext == ReceiveUpTo(MaxAddModulus, 2, MaxAddModulus * MaxAddModulus)

HomomorphicAdd ==
    /\ Len(cts) = 2
    /\ agg = <<>> /\ dec = <<>> /\ steps = <<>>
    /\ agg' = <<[op |-> "add", scalar |-> 0,
                 ciphertext |-> homomorphicAdd(cts[1].ciphertext, cts[2].ciphertext,
                                               keyPair.publicKey)]>>
    /\ UNCHANGED <<p, q, keyPair, cts, dec, steps, num>>
    /\ UNCHANGED <<rng, appVars>>

NextAdd ==
    \/ GenerateKeyPair
    \/ EncryptNext
    \/ ReceiveNext
    \/ HomomorphicAdd
    \/ MultiplyScalar
    \/ Decrypt

SpecAdd == Init /\ [][NextAdd]_vars

(***************************************************************************)
(* A session that folds three ciphertexts as the tally does, then folds    *)
(* them again in another order or grouping.                                *)
(***************************************************************************)
\* the loop of computeHomomorphicSum over a non-empty list of ciphertexts
RECURSIVE foldFrom(_, _, _, _)
foldFrom(sum, ciphertexts, i, publicKey) ==
    IF i <= Len(ciphertexts)
    THEN foldFrom(homomorphicAdd(sum, ciphertexts[i], publicKey), ciphertexts, i + 1,
                  publicKey)
    ELSE sum

computeHomomorphicSum(ciphertexts, publicKey) ==
    foldFrom(ciphertexts[1], ciphertexts, 2, publicKey)

\* the orders in which three ciphertexts can be listed
Orders == {o \in [1 .. 3 -> 1 .. 3] : \A i, j \in 1 .. 3 : i # j => o[i] # o[j]}

Held(o) == [i \in 1 .. 3 |-> cts[o[i]].ciphertext]

ReceiveForFold == ReceiveUpTo(MaxFoldModulus, 3, MaxCipherValue)

\* the tally's fold over the list as it stands
ComputeHomomorphicSum ==
    /\ Len(cts) = 3
    /\ agg = <<>>
    /\ agg' = <<[op |-> "fold", scalar |-> 0,
                 ciphertext |-> computeHomomorphicSum(Held([i \in 1 .. 3 |-> i]),
                                                      keyPair.publicKey)]>>
    /\ UNCHANGED <<p, q, keyPair, cts, dec, steps, num>>
    /\ UNCHANGED <<rng, appVars>>

\* the same fold over the list in another order
FoldReordered ==
    /\ Len(cts) = 3
    /\ Len(agg) = 1
    /\ \E o \in Orders :
         agg' = Append(agg, [op |-> "fold", scalar |-> 0,
                             ciphertext |-> computeHomomorphicSum(Held(o), keyPair.publicKey)])
    /\ UNCHANGED <<p, q, keyPair, cts, dec, steps, num>>
    /\ UNCHANGED <<rng, appVars>>

\* the three ciphertexts combined from the right: c1 with the sum of c2 and c3
FoldRegrouped ==
    /\ Len(cts) = 3
    /\ Len(agg) = 1
    /\ \E o \in Orders :
         LET h == Held(o)
         IN  agg' = Append(agg, [op |-> "fold", scalar |-> 0,
                 ciphertext |-> homomorphicAdd(h[1],
                                    homomorphicAdd(h[2], h[3], keyPair.publicKey),
                                    keyPair.publicKey)])
    /\ UNCHANGED <<p, q, keyPair, cts, dec, steps, num>>
    /\ UNCHANGED <<rng, appVars>>

NextFold ==
    \/ GenerateKeyPair
    \/ ReceiveForFold
    \/ ComputeHomomorphicSum
    \/ FoldReordered
    \/ FoldRegrouped

SpecFold == Init /\ [][NextFold]_vars

(***************************************************************************)
(* randomBigInt and encrypt, draw by draw: a direct call of                *)
(* randomBigInt(min, max), or a key generation and one encrypt call.       *)
(***************************************************************************)
\* the first statements of randomBigInt(min, max)
enterRandomBigInt(call, min, max) ==
    [call EXCEPT !.pc = "draw", !.min = min, !.max = max, !.range = max - min + 1,
                 !.bytes = byteCount(max - min + 1), !.result = 0, !.r = 0]

\* before a session that encrypts: two primes, no key pair yet
InitEncrypt ==
    /\ keyPair = NoKeyPair
    /\ cts = <<>> /\ agg = <<>> /\ dec = <<>> /\ steps = <<>>
    /\ num = NoNum
    /\ AppIdle
    /\ p \in Primes /\ q \in Primes
    /\ p * q <= MaxDrawModulus
    /\ rng = NoRng

\* a direct call of randomBigInt(min, max) has been entered
InitRandomBigInt ==
    /\ keyPair = NoKeyPair
    /\ cts = <<>> /\ agg = <<>> /\ dec = <<>> /\ steps = <<>>
    /\ num = NoNum
    /\ AppIdle
    /\ p = 0 /\ q = 0
    /\ \E min \in 0 .. MaxDrawMin :
         \E max \in (min .. MaxDrawMax)
                     \cup (IF min = 0 THEN {ByteSize - 2, ByteSize - 1} ELSE {}) :
            rng = enterRandomBigInt([NoRng EXCEPT !.caller = "direct"], min, max)

InitDraw == InitEncrypt \/ InitRandomBigInt

\* encrypt(message, publicKey) is called and calls randomBigInt(2, n - 1)
CallEncrypt ==
    /\ keyPair.status = "ok"
    /\ rng.pc = "idle"
    /\ \E message \in 0 .. Min(keyPair.publicKey.n - 1, MaxDrawMessage) :
         rng' = enterRandomBigInt([NoRng EXCEPT !.caller = "encrypt", !.message = message],
                                  2, keyPair.publicKey.n - 1)
    /\ UNCHANGED <<p, q, keyPair, cts, agg, dec, steps, num, appVars>>

\* crypto.getRandomValues fills the bytes and result becomes their value
DrawBytes ==
    /\ rng.pc = "draw"
    /\ \E bs \in [1 .. rng.bytes -> 0 .. ByteSize - 1] :
         rng' = [rng EXCEPT !.pc = "while", !.result = fromHex(bs, 1, 0)]
    /\ UNCHANGED <<p, q, keyPair, cts, agg, dec, steps, num, appVars>>

\* while (result >= range): draw again, or return min + result
LoopTest ==
    /\ rng.pc = "while"
    /\ rng' = IF drawTooLarge(rng.result, rng.range)
              THEN [rng EXCEPT !.pc = "draw", !.result = 0, !.discarded = TRUE]
              ELSE [rng EXCEPT !.pc = IF rng.caller = "encrypt" THEN "gcd" ELSE "done",
                               !.r = rng.min + rng.result]
    /\ UNCHANGED <<p, q, keyPair, cts, agg, dec, steps, num, appVars>>

\* while (gcd(r, n) !== 1n): call randomBigInt again, or compute the ciphertext
\* and return it with r
CoprimeTest ==
    /\ rng.pc = "gcd"
    /\ rng' = IF notCoprime(rng.r, keyPair.publicKey.n)
              THEN enterRandomBigInt([rng EXCEPT !.rejected = rng.r], 2,
                                     keyPair.publicKey.n - 1)
              ELSE [rng EXCEPT !.pc = "done",
                               !.ciphertext = encryptWith(rng.message, rng.r,
                                                          keyPair.publicKey)]
    /\ UNCHANGED <<p, q, keyPair, cts, agg, dec, steps, num, appVars>>

\* a key is generated in the sessions that encrypt, not around a direct call
NextDraw ==
    \/ rng.caller # "direct" /\ GenerateKeyPair
    \/ CallEncrypt
    \/ DrawBytes
    \/ LoopTest
    \/ CoprimeTest

SpecDraw == InitDraw /\ [][NextDraw]_vars

\* bytes that neither loop test can turn down: their value is below the range
\* and, in a call made by encrypt, min plus the value shares no factor with n
AdmissibleDraw ==
    /\ DrawBytes
    /\ rng'.result < rng.max - rng.min + 1
    /\ rng.caller = "encrypt"
         => \A f \in 2 .. keyPair.publicKey.n :
               ~(keyPair.publicKey.n % f = 0 /\ (rng.min + rng'.result) % f = 0)

\* the loops run on, and the random source is fair: bytes that can be drawn
\* again and again are drawn at some time
FairSource ==
    /\ WF_vars(LoopTest) /\ WF_vars(CoprimeTest)
    /\ SF_vars(AdmissibleDraw)

\* the sessions that encrypt, under a fair random source
SpecDrawFair == InitEncrypt /\ [][NextDraw]_vars /\ FairSource

(***************************************************************************)
(* The page: Home holds the key pair and the voter list, VotingPanel       *)
(* changes the list, VoteTally folds and decrypts.                         *)
(***************************************************************************)
\* a faulty handleKeyGenerated: the voter list is kept
handleKeyGenerated_KeepVoters(keys, list) == [keyPair |-> keys, voters |-> list]

\* Home.handleKeyGenerated: setKeyPair(keys); setVoters([])
handleKeyGenerated(keys, list) == [keyPair |-> keys, voters |-> <<>>]

\* VotingPanel.addVoter at clock reading id.  under is not a field of VoterData:
\* it remembers the public key the voter's encryption was made under.
addVoter(list, id) ==
    Append(list, [id |-> id, name |-> Len(list) + 1, vote |-> <<>>,
                  encryption |-> <<>>, under |-> <<>>])

\* VotingPanel.removeVoter
removeVoter(list, id) == SelectSeq(list, LAMBDA v : v.id # id)

\* VotingPanel.castVote; es[i] is what encrypt returns for the i-th voter
castVote(list, id, vote, es, publicKey) ==
    [i \in 1 .. Len(list) |->
        IF list[i].id = id
        THEN [list[i] EXCEPT !.vote = <<vote>>, !.encryption = <<es[i]>>,
                             !.under = <<publicKey>>]
        ELSE list[i]]

\* VoteTally.votedVoters
votedVoters(list) == SelectSeq(list, LAMBDA v : v.vote # <<>> /\ v.encryption # <<>>)

\* the ciphertexts of a list of voters who voted
ciphertextsOf(list) == [i \in 1 .. Len(list) |-> list[i].encryption[1].ciphertext]

\* the four state values of VoteTally
tallyState ==
    [encryptedSum |-> encryptedSum, decryptedSum |-> decryptedSum,
     decryptionSteps |-> decryptionSteps, showDecryption |-> showDecryption]

\* a faulty handler: no early return, the fold starts from 1
computeHomomorphicSumHandler_NoGuard(list, publicKey, tally) ==
    [encryptedSum |-> <<foldFrom(1, ciphertextsOf(votedVoters(list)), 1, publicKey)>>,
     decryptedSum |-> <<>>, decryptionSteps |-> <<>>, showDecryption |-> FALSE]

\* VoteTally.computeHomomorphicSum
computeHomomorphicSumHandler(list, publicKey, tally) ==
    IF Len(votedVoters(list)) = 0
    THEN tally
    ELSE [encryptedSum |->
              <<computeHomomorphicSum(ciphertextsOf(votedVoters(list)), publicKey)>>,
          decryptedSum |-> <<>>, decryptionSteps |-> <<>>, showDecryption |-> FALSE]

\* VoteTally.decryptSum; !encryptedSum is true of null and of 0n
decryptSum(privateKey, tally) ==
    IF tally.encryptedSum = <<>> \/ tally.encryptedSum[1] = 0
    THEN tally
    ELSE LET trace == decryptWithSteps(tally.encryptedSum[1], privateKey)
         IN  [tally EXCEPT !.decryptionSteps = <<trace>>,
                           !.decryptedSum = <<trace.message>>,
                           !.showDecryption = TRUE]

\* VoteTally.actualYesCount and isCorrect
actualYesCount(list) == Len(SelectSeq(list, LAMBDA v : v.vote = <<1>>))
isCorrect(list, tally) ==
    tally.decryptedSum # <<>> /\ tally.decryptedSum[1] = actualYesCount(list)

\* the results block of VoteTally is rendered
resultShown(list, tally) ==
    /\ Len(votedVoters(list)) # 0
    /\ tally.showDecryption /\ tally.decryptedSum # <<>> /\ tally.decryptionSteps # <<>>

libVars == <<cts, agg, dec, steps, num, rng>>
tallyVars == <<encryptedSum, decryptedSum, decryptionSteps, showDecryption>>

InitApp ==
    /\ p = 0 /\ q = 0
    /\ keyPair = NoKeyPair
    /\ cts = <<>> /\ agg = <<>> /\ dec = <<>> /\ steps = <<>>
    /\ num = NoNum /\ rng = NoRng
    /\ AppIdle

\* the key pairs generateKeyPair returns for two primes of the selection, the
\* smaller first
selectedPrimes ==
    {pair \in Primes \X Primes :
        pair[1] <= pair[2] /\ pair[1] * pair[2] <= MaxTallyModulus}
generatedKeys ==
    {keys \in {generateKeyPair(pair[1], pair[2]) : pair \in selectedPrimes} :
        keys.status = "ok"}

\* KeyGeneration: two primes are selected, generateKeyPair is called and, when
\* it returns, its key pair is handed to onKeyGenerated
KeyGenerated ==
    /\ \E keys \in generatedKeys :
         /\ p' = keys.steps.p /\ q' = keys.steps.q
         /\ keyPair' = handleKeyGenerated(keys, voters).keyPair
         /\ voters' = handleKeyGenerated(keys, voters).voters
    /\ computed' = "no"
    /\ UNCHANGED <<now, tallyVars, libVars>>

\* the Add Voter button; the clock has not gone back since the last reading
AddVoter ==
    /\ keyPair.status = "ok"
    /\ Len(voters) < MaxVoters
    /\ \E t \in now .. MaxClock :
         /\ now' = t
         /\ voters' = addVoter(voters, t)
    /\ computed' = "no"
    /\ UNCHANGED <<p, q, keyPair, tallyVars, libVars>>

\* the remove button of a voter
RemoveVoter ==
    /\ keyPair.status = "ok"
    /\ \E i \in 1 .. Len(voters) : voters' = removeVoter(voters, voters[i].id)
    /\ computed' = "no"
    /\ UNCHANGED <<p, q, keyPair, now, tallyVars, libVars>>

\* the Yes or No button of a voter: one encrypt call for each voter with the id
CastVote ==
    /\ keyPair.status = "ok"
    /\ \E i \in 1 .. Len(voters), vote \in {0, 1} :
         \E es \in [1 .. Len(voters) ->
                       {e \in encrypt(vote, keyPair.publicKey) : e.r <= MaxTallyBlinding}] :
            /\ \A j \in 1 .. Len(voters) : voters[j].id # voters[i].id => es[j] = es[1]
            /\ voters' = castVote(voters, voters[i].id, vote, es, keyPair.publicKey)
    /\ computed' = "no"
    /\ UNCHANGED <<p, q, keyPair, now, tallyVars, libVars>>

\* computeHomomorphicSum runs
VoteTallyCompute ==
    /\ keyPair.status = "ok"
    /\ LET after == computeHomomorphicSumHandler(voters, keyPair.publicKey, tallyState)
       IN  /\ encryptedSum' = after.encryptedSum
           /\ decryptedSum' = after.decryptedSum
           /\ decryptionSteps' = after.decryptionSteps
           /\ showDecryption' = after.showDecryption
    /\ computed' = IF Len(votedVoters(voters)) = 0 THEN "returned" ELSE "folded"
    /\ UNCHANGED <<p, q, keyPair, now, voters, libVars>>

\* decryptSum runs
VoteTallyDecrypt ==
    /\ keyPair.status = "ok"
    /\ LET after == decryptSum(keyPair.privateKey, tallyState)
       IN  /\ encryptedSum' = after.encryptedSum
           /\ decryptedSum' = after.decryptedSum
           /\ decryptionSteps' = after.decryptionSteps
           /\ showDecryption' = after.showDecryption
    /\ computed' = "no"
    /\ UNCHANGED <<p, q, keyPair, now, voters, libVars>>

NextApp ==
    \/ KeyGenerated
    \/ AddVoter
    \/ RemoveVoter
    \/ CastVote
    \/ VoteTallyCompute
    \/ VoteTallyDecrypt

SpecApp == InitApp /\ [][NextApp]_vars

(***************************************************************************)
(* Direct calls of the number-theory primitives.                           *)
(***************************************************************************)
InitNum ==
    /\ p = 0 /\ q = 0
    /\ keyPair = NoKeyPair
    /\ cts = <<>> /\ agg = <<>> /\ dec = <<>> /\ steps = <<>>
    /\ rng = NoRng
    /\ AppIdle
    /\ \/ \E a \in -MaxOperand .. MaxOperand, modulus \in 2 .. MaxInverseModulus :
            num = [NoNum EXCEPT !.op = "modInverse", !.a = a, !.modulus = modulus]
       \/ \E base \in -MaxOperand .. MaxOperand, exp \in 0 .. MaxExponent,
               modulus \in 1 .. MaxInverseModulus :
            num = [NoNum EXCEPT !.op = "modPow", !.a = base, !.exp = exp,
                                !.modulus = modulus]
       \/ \E min \in -MaxRangeEnd .. MaxRangeEnd :
            \E max \in min .. MaxRangeEnd :
               num = [NoNum EXCEPT !.op = "findPrimesInRange", !.a = min, !.exp = max]

ModInverse ==
    /\ num.op = "modInverse" /\ ~num.called
    /\ LET r == modInverse(num.a, num.modulus)
       IN  num' = [num EXCEPT !.called = TRUE, !.ok = r.ok, !.value = r.value]
    /\ UNCHANGED <<p, q, keyPair, cts, agg, dec, steps, rng, appVars>>

\* modPow(base, exp, modulus), base being num.a
ModPow ==
    /\ num.op = "modPow" /\ ~num.called
    /\ num' = [num EXCEPT !.called = TRUE, !.ok = TRUE,
                          !.value = modPow(num.a, num.exp, num.modulus)]
    /\ UNCHANGED <<p, q, keyPair, cts, agg, dec, steps, rng, appVars>>

\* findPrimesInRange(min, max), min being num.a and max num.exp
FindPrimesInRange ==
    /\ num.op = "findPrimesInRange" /\ ~num.called
    /\ num' = [num EXCEPT !.called = TRUE, !.ok = TRUE,
                          !.list = findPrimesInRange(num.a, num.exp)]
    /\ UNCHANGED <<p, q, keyPair, cts, agg, dec, steps, rng, appVars>>

NextNum ==
    \/ ModInverse
    \/ ModPow
    \/ FindPrimesInRange

SpecNum == InitNum /\ [][NextNum]_vars

(***************************************************************************)
(* Reference arithmetic used to state the properties.                      *)
(***************************************************************************)
Divides(d, x) == x % d = 0

\* l is the least common multiple of the positive integers a and b
IsLcm(l, a, b) ==
    /\ l >= 1 /\ Divides(a, l) /\ Divides(b, l)
    /\ \A k \in 1 .. l - 1 : ~(Divides(a, k) /\ Divides(b, k))

\* d is the greatest common divisor of the positive integers a and b
IsGcd(d, a, b) ==
    /\ d >= 1 /\ Divides(d, a) /\ Divides(d, b)
    /\ \A k \in d + 1 .. a : ~(Divides(k, a) /\ Divides(k, b))

\* b^e mod m by e successive multiplications (b >= 0, e >= 0, m >= 1)
RECURSIVE PowerMod(_, _, _)
PowerMod(b, e, m) == IF e = 0 THEN 1 % m ELSE (b * PowerMod(b, e - 1, m)) % m

PK == keyPair.publicKey
SK == keyPair.privateKey

(***************************************************************************)
(* Properties of the session.                                              *)
(***************************************************************************)
\* C1 (round trip): under a key pair generated from distinct primes, decrypting
\* the ciphertext that encrypt returned for a message m of [0, n), whatever
\* admissible r it drew, gives m back.
RoundTrip ==
    (/\ keyPair.status = "ok" /\ p # q
     /\ Len(cts) = 1 /\ cts[1].from = "encrypt" /\ agg = <<>> /\ dec # <<>>)
    => /\ dec[1].ciphertext = cts[1].ciphertext
       /\ dec[1].message = cts[1].message

\* a decrypted encryption of the largest message, with a blinding factor above 2
RoundTripWitness ==
    /\ keyPair.status = "ok" /\ p # q
    /\ Len(cts) = 1 /\ cts[1].from = "encrypt" /\ agg = <<>> /\ dec # <<>>
    /\ cts[1].message = PK.n - 1 /\ cts[1].r > 2
    /\ dec[1].message = PK.n - 1

\* C3 (equal primes): generateKeyPair(p, p) never returns a key pair, it throws
\* the invalid-prime-pair error, as isValidPaillierPair(p, p) = FALSE has it.
EqualPrimesRejected ==
    (p = q /\ keyPair.status # "none")
    => (keyPair.status = "invalid" /\ ~isValidPaillierPair(p, q))

\* C4 (invalid pair): for distinct primes the invalid-prime-pair error is thrown
\* exactly when p divides q-1 or q divides p-1; it is thrown before modPow and
\* modInverse run, nothing is returned, and it carries n, lambda and the gcd.
InvalidPairError ==
    (p # q /\ keyPair.status # "none")
    => /\ keyPair.status \in {"ok", "invalid"}
       /\ (keyPair.status = "invalid") <=> (Divides(p, q - 1) \/ Divides(q, p - 1))
       /\ keyPair.status = "invalid" =>
            /\ \A i \in 1 .. Len(keyPair.calls) :
                  keyPair.calls[i] \notin {"modPow", "modInverse"}
            /\ keyPair.publicKey = NoPublicKey
            /\ keyPair.privateKey = NoPrivateKey
            /\ keyPair.steps = NoKeySteps
            /\ keyPair.error.n = p * q
            /\ IsLcm(keyPair.error.lambda, p - 1, q - 1)
            /\ IsGcd(keyPair.error.gcd, keyPair.error.n, keyPair.error.lambda)
            /\ keyPair.error.gcd # 1

\* generateKeyPair(7, 3) has thrown: 3 divides 7 - 1
InvalidPairErrorWitness ==
    /\ p = 7 /\ q = 3
    /\ keyPair.status = "invalid"
    /\ keyPair.error = [n |-> 21, lambda |-> 6, gcd |-> 3]

\* C9 (key derivation): a returned key pair has n = p*q, nSquared = n*n,
\* g = n+1, lambda = lcm(p-1, q-1), g^lambda mod n^2 - 1 an exact multiple of
\* n, mu in [0, n) with lambda*mu mod n = 1, and the same numbers in the public
\* key, the private key and the trace.
KeyDerivation ==
    keyPair.status = "ok"
    => LET t == keyPair.steps
       IN  /\ t.p = p /\ t.q = q /\ t.pMinus1 = p - 1 /\ t.qMinus1 = q - 1
           /\ t.n = p * q
           /\ t.nSquared = t.n * t.n
           /\ t.g = t.n + 1
           /\ IsLcm(t.lambda, p - 1, q - 1)
           /\ t.gLambda = PowerMod(t.g, t.lambda, t.nSquared)
           /\ Divides(t.n, t.gLambda - 1)
           /\ t.lOfGLambda * t.n = t.gLambda - 1
           /\ t.mu \in 0 .. t.n - 1
           /\ (t.lambda * t.mu) % t.n = 1
           /\ PK = [n |-> t.n, nSquared |-> t.nSquared, g |-> t.g]
           /\ SK = [lambda |-> t.lambda, mu |-> t.mu, n |-> t.n, nSquared |-> t.nSquared]

\* the key pair of the scenario p = 7, q = 11
KeyDerivationWitness ==
    /\ p = 7 /\ q = 11 /\ keyPair.status = "ok"
    /\ PK = [n |-> 77, nSquared |-> 5929, g |-> 78]
    /\ SK.lambda = 30 /\ SK.mu = 18

\* C5 (trace agreement): for a ciphertext of [0, n^2), decryptWithSteps gives the
\* message decrypt gives, and its trace holds cLambda = c^lambda mod n^2,
\* lValue = (cLambda - 1) / n, lTimesMu = lValue * mu, message = lTimesMu mod n.
TraceAgreement ==
    (dec # <<>> /\ steps # <<>>)
    => LET t == steps[1]
       IN  /\ t.ciphertext = dec[1].ciphertext
           /\ t.ciphertext \in 0 .. SK.nSquared - 1
           /\ t.message = dec[1].message
           /\ t.lambda = SK.lambda /\ t.mu = SK.mu
           /\ t.n = SK.n /\ t.nSquared = SK.nSquared
           /\ t.cLambda = PowerMod(t.ciphertext, SK.lambda, SK.nSquared)
           /\ t.lValue = Quot(t.cLambda - 1, SK.n)
           /\ t.lTimesMu = t.lValue * SK.mu
           /\ t.message = t.lTimesMu % SK.n

\* both decryptions of a received ciphertext, where the product lValue * mu
\* exceeds n
TraceAgreementWitness ==
    /\ dec # <<>> /\ steps # <<>>
    /\ Len(cts) = 1 /\ cts[1].from = "given" /\ agg = <<>>
    /\ steps[1].lTimesMu > SK.n
    /\ steps[1].message = dec[1].message /\ dec[1].message > 0

\* C8 (scalar multiplication): under a key pair generated from distinct primes,
\* decrypting homomorphicMultiplyScalar(c, k) of an encryption c of m gives
\* k * m mod n.
ScalarMultiplication ==
    (/\ keyPair.status = "ok" /\ p # q
     /\ Len(cts) = 1 /\ cts[1].from = "encrypt"
     /\ agg # <<>> /\ dec # <<>>)
    => /\ agg[1].op = "scalar"
       /\ dec[1].ciphertext = agg[1].ciphertext
       /\ dec[1].message = (agg[1].scalar * cts[1].message) % PK.n

\* a decrypted scalar multiple whose plaintext product wrapped around n
ScalarMultiplicationWitness ==
    /\ keyPair.status = "ok" /\ p # q
    /\ Len(cts) = 1 /\ cts[1].from = "encrypt"
    /\ agg # <<>> /\ dec # <<>>
    /\ agg[1].scalar = 3
    /\ agg[1].scalar * cts[1].message > PK.n
    /\ dec[1].message = (3 * cts[1].message) % PK.n

(***************************************************************************)
(* Properties of the sessions with several ciphertexts.                    *)
(***************************************************************************)
\* C2 (homomorphism): under a key pair generated from distinct primes,
\* decrypting homomorphicAdd of the encryptions of m1 and m2 gives
\* (m1 + m2) mod n, which is m1 + m2 when m1 + m2 < n.
Homomorphism ==
    (/\ keyPair.status = "ok" /\ p # q
     /\ Len(cts) = 2 /\ cts[1].from = "encrypt" /\ cts[2].from = "encrypt"
     /\ agg # <<>> /\ dec # <<>>)
    => /\ agg[1].op = "add"
       /\ dec[1].ciphertext = agg[1].ciphertext
       /\ dec[1].message = (cts[1].message + cts[2].message) % PK.n
       /\ cts[1].message + cts[2].message < PK.n
            => dec[1].message = cts[1].message + cts[2].message

\* a decrypted sum of two encryptions, drawn with different r, whose plaintext
\* sum wrapped around n
HomomorphismWitness ==
    /\ keyPair.status = "ok" /\ p # q
    /\ Len(cts) = 2 /\ cts[1].from = "encrypt" /\ cts[2].from = "encrypt"
    /\ agg # <<>> /\ dec # <<>>
    /\ cts[1].r # cts[2].r
    /\ cts[1].message + cts[2].message > PK.n
    /\ dec[1].message = cts[1].message + cts[2].message - PK.n

\* C7 (ciphertext range): every ciphertext returned by encrypt, by
\* homomorphicAdd and by homomorphicMultiplyScalar lies in [0, n^2).
CiphertextRange ==
    keyPair.status = "ok"
    => /\ \A i \in 1 .. Len(cts) :
            cts[i].from = "encrypt" => cts[i].ciphertext \in 0 .. PK.nSquared - 1
       /\ \A i \in 1 .. Len(agg) : agg[i].ciphertext \in 0 .. PK.nSquared - 1

\* homomorphicAdd has returned for two received ciphertexts whose product is
\* n^2 or more
CiphertextRangeWitness ==
    /\ keyPair.status = "ok" /\ p # q
    /\ Len(cts) = 2 /\ cts[1].from = "given" /\ cts[2].from = "given"
    /\ agg # <<>> /\ agg[1].op = "add"
    /\ cts[1].ciphertext * cts[2].ciphertext >= PK.nSquared
    /\ agg[1].ciphertext \in 1 .. PK.nSquared - 1

\* C6 (fold order independence): folding three ciphertexts of [0, n^2) with
\* homomorphicAdd gives the same aggregate in each of the 6 orders and in
\* either grouping.
FoldOrderIndependence ==
    (Len(agg) = 2 /\ agg[1].op = "fold" /\ agg[2].op = "fold")
    => agg[2].ciphertext = agg[1].ciphertext

\* three different ciphertexts folded twice, the products exceeding n^2
FoldOrderIndependenceWitness ==
    /\ Len(cts) = 3 /\ Len(agg) = 2
    /\ cts[1].ciphertext < cts[2].ciphertext /\ cts[2].ciphertext < cts[3].ciphertext
    /\ cts[1].ciphertext * cts[2].ciphertext > PK.nSquared
    /\ agg[2].ciphertext = agg[1].ciphertext /\ agg[1].ciphertext > 1

(***************************************************************************)
(* Properties of the number-theory primitives.                             *)
(***************************************************************************)
Coprime(a, b) == \A d \in 2 .. b : ~(Divides(d, a) /\ Divides(d, b))

\* C10 (modular inverse): for every integer a and modulus >= 2, modInverse
\* throws exactly when gcd(a, modulus) # 1, and otherwise returns x of
\* [0, modulus) with a * x mod modulus = 1.
ModInverseContract ==
    (num.op = "modInverse" /\ num.called)
    => /\ num.ok <=> Coprime(num.a, num.modulus)
       /\ num.ok => /\ num.value \in 0 .. num.modulus - 1
                    /\ (num.a * num.value) % num.modulus = 1

\* C11 (modPow, exponent 0): modPow(base, 0, modulus) is 1 mod modulus for every
\* base and every modulus >= 1: 0 when modulus = 1 and 1 otherwise.
ModPowExponentZero ==
    (num.op = "modPow" /\ num.called /\ num.exp = 0 /\ num.modulus >= 1)
    => num.value = 1 % num.modulus

\* n is a prime number
IsPrimeNumber(n) == n >= 2 /\ \A d \in 2 .. n - 1 : n % d # 0

\* C12 (primes of a range): for integers min <= max, findPrimesInRange returns, in
\* strictly ascending order, exactly the primes of [min, max]; isPrime is right
\* about every integer of the range.
PrimesInRange ==
    (num.op = "findPrimesInRange" /\ num.called)
    => /\ \A i \in 1 .. Len(num.list) - 1 : num.list[i] < num.list[i + 1]
       /\ Range(num.list) = {i \in num.a .. num.exp : IsPrimeNumber(i)}
       /\ \A i \in num.a .. num.exp : isPrime(i) <=> IsPrimeNumber(i)

\* findPrimesInRange(10, 20) has returned 11, 13, 17, 19
PrimesInRangeWitness ==
    /\ num.op = "findPrimesInRange" /\ num.called
    /\ num.a = 10 /\ num.exp = 20
    /\ num.list = <<11, 13, 17, 19>>

\* the value randomBigInt has returned lies in [min, max] and is min plus the
\* bytes drawn last, unreduced; while it draws, every value of [min, max] is
\* the outcome of some bytes
RandomBigIntResult ==
    /\ rng.pc \in {"gcd", "done"}
         => /\ rng.min <= rng.r /\ rng.r <= rng.max
            /\ rng.result < rng.max - rng.min + 1
            /\ rng.r = rng.min + rng.result
    /\ rng.pc = "draw"
         => \A v \in rng.min .. rng.max :
               \E bs \in [1 .. rng.bytes -> 0 .. ByteSize - 1] :
                  /\ ~drawTooLarge(fromHex(bs, 1, 0), rng.range)
                  /\ rng.min + fromHex(bs, 1, 0) = v

\* a step from bytes whose value is max - min + 1 or more returns nothing and
\* leads back to the draw
DiscardedDraw ==
    (rng.pc = "while" /\ rng.result >= rng.max - rng.min + 1)
        => (rng'.pc = "draw" /\ rng'.discarded /\ rng'.r = rng.r)

\* C13: randomBigInt(min, max) with min <= max returns only values of
\* [min, max], whatever the bytes drawn: bytes whose value is max - min + 1 or
\* more are discarded and drawn again, never reduced or returned, and every
\* value of [min, max] can be returned.
RejectionSampling == [](RandomBigIntResult) /\ [][DiscardedDraw]_vars

\* a direct call over two bytes has discarded a draw and then returned max
RejectionSamplingWitness ==
    /\ rng.caller = "direct" /\ rng.pc = "done"
    /\ rng.bytes = 2 /\ rng.discarded
    /\ rng.r = rng.max

\* C14 (semantic variability): under a valid public key, two encrypt calls on
\* the same message whose blinding factors differ return different
\* ciphertexts: for a fixed message the ciphertext determines r.
SemanticVariability ==
    (/\ keyPair.status = "ok" /\ p # q
     /\ Len(cts) = 2 /\ cts[1].from = "encrypt" /\ cts[2].from = "encrypt"
     /\ cts[1].message = cts[2].message
     /\ cts[1].r # cts[2].r)
    => cts[1].ciphertext # cts[2].ciphertext

\* the message 1 encrypted twice under n = 15, with r = 2 and with r = 14
SemanticVariabilityWitness ==
    /\ keyPair.status = "ok" /\ p # q /\ PK.n = 15
    /\ Len(cts) = 2 /\ cts[1].from = "encrypt" /\ cts[2].from = "encrypt"
    /\ cts[1].message = 1 /\ cts[2].message = 1
    /\ cts[1].r = 2 /\ cts[2].r = 14
    /\ cts[1].ciphertext # cts[2].ciphertext

\* what encrypt has returned: r of [2, n - 1] coprime to n, the ciphertext
\* built from that r, and no r that had failed the test
EncryptionResult ==
    (rng.caller = "encrypt" /\ rng.pc = "done")
    => /\ 2 <= rng.r /\ rng.r <= PK.n - 1
       /\ Coprime(rng.r, PK.n)
       /\ rng.ciphertext = (PowerMod(PK.g, rng.message, PK.n * PK.n)
                              * PowerMod(rng.r, PK.n, PK.n * PK.n)) % (PK.n * PK.n)
       /\ rng.rejected # 0 => (~Coprime(rng.rejected, PK.n) /\ rng.rejected # rng.r)

\* a step from an r that shares a factor with n computes no ciphertext and
\* leads to another call of randomBigInt(2, n - 1)
RedrawnFactor ==
    (rng.pc = "gcd" /\ ~Coprime(rng.r, PK.n))
        => /\ rng'.pc = "draw" /\ rng'.rejected = rng.r
           /\ rng'.min = 2 /\ rng'.max = PK.n - 1
           /\ rng'.ciphertext = rng.ciphertext

\* C15: encrypt(message, publicKey) returns the blinding factor it used, r of
\* [2, n - 1] with gcd(r, n) = 1, and the ciphertext
\* ((g^message mod n^2) * (r^n mod n^2)) mod n^2; an r that shares a factor
\* with n is drawn again and never used.
BlindingFactor == [](EncryptionResult) /\ [][RedrawnFactor]_vars

\* encrypt under n = 15 drew r = 6, drew again and returned r = 7
BlindingFactorWitness ==
    /\ rng.caller = "encrypt" /\ rng.pc = "done"
    /\ PK.n = 15 /\ rng.message = 1
    /\ rng.rejected = 6 /\ rng.r = 7
    /\ rng.ciphertext = encryptWith(1, 7, PK)

\* C16 (termination of sampling): under a fair random source every call of
\* encrypt under a generated key returns; the two loops have no attempt limit
\* and no failure outcome, the call is drawing, testing or has returned.
SamplingTerminates ==
    /\ [](rng.pc \in {"idle", "draw", "while", "gcd", "done"})
    /\ (rng.caller = "encrypt" /\ rng.pc = "draw")
          ~> (rng.caller = "encrypt" /\ rng.pc = "done" /\ Coprime(rng.r, PK.n))

\* encrypt has returned after both of its loops drew again
SamplingTerminatesWitness ==
    /\ rng.caller = "encrypt" /\ rng.pc = "done"
    /\ rng.discarded /\ rng.rejected # 0
    /\ p # q

(***************************************************************************)
(* Properties of the page.                                                 *)
(***************************************************************************)
\* the product of the numbers of a sequence, from the i-th on, modulo m
RECURSIVE ProductMod(_, _, _)
ProductMod(cs, i, m) == IF i > Len(cs) THEN 1 % m ELSE (cs[i] * ProductMod(cs, i + 1, m)) % m

\* a run of computeHomomorphicSum: with no voter who voted it changes nothing of
\* VoteTally, otherwise it stores the product of the voted voters' ciphertexts
\* and clears the decryption
ComputeStep ==
    computed' # "no"
    => IF \A i \in 1 .. Len(voters) : voters[i].vote = <<>> \/ voters[i].encryption = <<>>
       THEN computed' = "returned" /\ UNCHANGED tallyVars
       ELSE /\ computed' = "folded"
            /\ encryptedSum' = <<ProductMod(ciphertextsOf(votedVoters(voters)), 1,
                                              PK.n * PK.n)>>
            /\ decryptedSum' = <<>> /\ decryptionSteps' = <<>> /\ showDecryption' = FALSE

\* C17: computeHomomorphicSum folds and sets encryptedSum only when at least one
\* voter has a cast vote with an encryption; when no voter has voted it returns
\* and leaves encryptedSum, decryptedSum, decryptionSteps and showDecryption as
\* they were.
NoEmptyFold == [][ComputeStep]_vars

\* computeHomomorphicSum has returned early on a list of one voter who has not
\* voted, and the sum and decryption of an earlier tally are still there
NoEmptyFoldWitness ==
    /\ computed = "returned"
    /\ Len(voters) = 1 /\ voters[1].vote = <<>>
    /\ encryptedSum # <<>> /\ decryptedSum # <<>> /\ showDecryption

\* C18 (same-key folding): every encryption in the voter list was returned by
\* encrypt for the voter's vote under the public key of the current key pair,
\* so the ciphertexts computeHomomorphicSum folds are all of the key it hands
\* to homomorphicAdd.
SameKeyFolding ==
    \A i \in 1 .. Len(voters) :
        voters[i].encryption # <<>>
        => /\ keyPair.status = "ok"
           /\ voters[i].under = <<PK>>
           /\ voters[i].vote # <<>>
           /\ 2 <= voters[i].encryption[1].r /\ voters[i].encryption[1].r <= PK.n - 1
           /\ Coprime(voters[i].encryption[1].r, PK.n)
           /\ voters[i].encryption[1].ciphertext
                = encryptWith(voters[i].vote[1], voters[i].encryption[1].r, PK)

\* two voters have voted under n = 15 after a tally under n = 9 was decrypted
SameKeyFoldingWitness ==
    /\ keyPair.status = "ok" /\ PK.n = 15
    /\ decryptionSteps # <<>> /\ decryptionSteps[1].n = 9
    /\ Len(voters) = 2
    /\ \A i \in 1 .. 2 : voters[i].encryption # <<>> /\ voters[i].under = <<PK>>

\* C19 (displayed tally): whenever the result is displayed, the ciphertext that
\* was decrypted is the fold of the ciphertexts of the voters who have voted
\* now, under the current key pair, and decryptedSum is the number of voters
\* whose vote is 1.
DisplayedTally ==
    (keyPair.status = "ok" /\ resultShown(voters, tallyState))
    => /\ decryptionSteps[1].ciphertext
            = ProductMod(ciphertextsOf(votedVoters(voters)), 1, PK.n * PK.n)
       /\ decryptionSteps[1].n = PK.n
       /\ decryptedSum[1] = Cardinality({i \in 1 .. Len(voters) : voters[i].vote = <<1>>})
       /\ isCorrect(voters, tallyState)

\* C20 (vote record): a voter has a vote exactly when it has an encryption, and
\* decrypting the ciphertext of the encryption gives the vote.
VoteRecord ==
    \A i \in 1 .. Len(voters) :
        /\ voters[i].vote = <<>> <=> voters[i].encryption = <<>>
        /\ voters[i].encryption # <<>>
             => decrypt(voters[i].encryption[1].ciphertext, SK) = voters[i].vote[1]

\* the part of C20 about the steps: a new voter has neither vote nor encryption,
\* and a vote changes the voters of one id, both fields together, and nothing
\* else of the list
VoteRecordStep ==
    /\ AddVoter => /\ Len(voters') = Len(voters) + 1
                   /\ voters'[Len(voters')].vote = <<>>
                   /\ voters'[Len(voters')].encryption = <<>>
                   /\ \A i \in 1 .. Len(voters) : voters'[i] = voters[i]
    /\ CastVote => /\ Len(voters') = Len(voters)
                   /\ \E i \in 1 .. Len(voters), vote \in {0, 1} :
                        \A j \in 1 .. Len(voters) :
                           IF voters[j].id = voters[i].id
                           THEN /\ voters'[j].vote = <<vote>>
                                /\ voters'[j].encryption # <<>>
                                /\ voters'[j].encryption[1] \in encrypt(vote, PK)
                                /\ voters'[j].id = voters[j].id
                                /\ voters'[j].name = voters[j].name
                           ELSE voters'[j] = voters[j]
VoteRecordSteps == [][VoteRecordStep]_vars
====
